---- MODULE Spec2Model ----
(***************************************************************************)
(* Model of cloud::audiocom::sync::RemoteProjectSnapshot                   *)
(* (libraries/lib-cloud-audiocom/sync/RemoteProjectSnapshot.cpp): the      *)
(* session that downloads a project snapshot (project blob + sample        *)
(* blocks) into the local store, with its scheduler thread, the transport  *)
(* threads that run the finished-callbacks, and the caller's Cancel().     *)
(*                                                                         *)
(* Threads: the caller (Sync, Cancel), the scheduler (RequestsThread) and  *)
(* one transport thread per dispatched request (the finished-callback of   *)
(* its response, including the retries it re-issues).  Every step below is *)
(* one access to shared state (an atomic load/store, a critical section of *)
(* one mutex, one callback invocation); steps of different threads         *)
(* interleave freely.                                                      *)
(***************************************************************************)
EXTENDS Integers, Sequences, FiniteSets, Bags, TLC

VARIABLES
    phase,                \* "new" | "active" | "shortcut" | "noattach", then
                          \* "destroying" | "destroyed" | "crashed"
    blocks,               \* mSnapshotInfo.Blocks: the hashes, in snapshot order
    db,                   \* local store: project record, block_hashes rows, sampleblocks rows,
                          \* and whether the snapshot database is attached
    syncRecord,           \* CloudProjectsDatabase project data (or NoRecord)
    mCancelled,
    mFailed,
    mDownloadedBlocks,
    mMissingBlocks,
    mProjectDownloaded,
    mRequests,            \* the pending list
    mNextRequestIndex,    \* 0-based cursor, as in the code
    mRequestsInProgress,
    requestsMutex,        \* TRUE while the scheduler holds mRequestsMutex
    dbWriteMutex,         \* TRUE while a transport thread holds mDbWriteMutex
    sched,                \* scheduler thread: [pc, notified]; pc "none" before the
                          \* thread is started, "done" once RequestsThread has
                          \* returned, "stopped" when the process stopped under it
    chains,               \* bag of request chains (one per dispatched request)
    caller,               \* caller thread: [pc, bd, pd]; pc "gone" after the destructor,
                          \* "stopped" when the process stopped under it
    reports,              \* the callback invocations so far: counts and the last one
    env,                  \* what the environment may still do: [faults, cancels, threads]
    mResponses            \* the vector itself (which responses it tracks is kept by
                          \* the chains): "intact", or "raced" once a push_back ran
                          \* beside another access, after which its contents, and
                          \* the heap it lives in, are indeterminate

vars == << phase, blocks, db, syncRecord, mCancelled, mFailed, mDownloadedBlocks,
           mMissingBlocks, mProjectDownloaded, mRequests, mNextRequestIndex,
           mRequestsInProgress, requestsMutex, dbWriteMutex, sched, chains,
           caller, reports, env, mResponses >>

(***************************************************************************)
(* Program constants                                                       *)
(***************************************************************************)
MAX_CONCURRENT_REQUESTS == 6

InitialRetries == 3

\* sizeof(uint64_t): the length prefix of the project blob.
SizeOfU64 == 8

\* uint64_t values are kept as four limbs of 16 bits, least significant
\* first, so that sums wrap at 2^64 as they do in the program.
LimbBase == 65536

(***************************************************************************)
(* Bounds of the model                                                     *)
(***************************************************************************)
\* Cancel() is called at most this many times by the caller.
MaxCancels == 2

\* Longest snapshot block list whose construction is enumerated.
MaxBlocks == 2

\* Statements the store may fail to create while a session is constructed.
CtorFaults == 1

\* Requests left in the pending list when the scheduler reaches the ceiling.
ExtraRequests == 1

\* Finished-callbacks the transport layer runs at the same time.
TransportThreads == 2

\* The environment of the session that reaches the ceiling: failing outcomes
\* (network errors, invalid payloads, store failures), Cancel() calls, and
\* finished-callbacks running at the same time.
CeilingFaults == 1

CeilingCancels == 1

CeilingThreads == 1

\* Longest project-blob payload, in bytes, whose framing is enumerated.
MaxPayload == 10

(***************************************************************************)
(* Data                                                                    *)
(***************************************************************************)
\* Hash strings as the server sends them; "a" is "A" in lower case.
Hashes == {"a", "A", "B"}

\* ToUpper (StringUtils), on the hash alphabet.
ToUpper(h) == IF h = "a" THEN "A" ELSE IF h = "b" THEN "B" ELSE h

UpperHashes == {ToUpper(h) : h \in Hashes}

\* The block id inside a block's payload; content-addressed, so it is
\* determined by the (normalised) hash of the block.
BlockIdOf(h) == ToUpper(h)

SnapshotId == "s1"

OtherSnapshotId == "s0"

NoRecord == [snapshotId |-> "", status |-> "none"]

SyncRecords ==
    { NoRecord,
      [snapshotId |-> SnapshotId, status |-> "Downloading"],
      [snapshotId |-> SnapshotId, status |-> "Synced"],
      [snapshotId |-> OtherSnapshotId, status |-> "Synced"] }

EmptyDb == [project |-> FALSE, hashRows |-> {}, blockRows |-> {}, attached |-> "no"]

\* RemoteProjectSnapshotState, brace-initialised positionally: the fields in
\* declaration order are DownloadedBlocks, MissingBlocks, Error,
\* ProjectDownloaded, Complete, Success, Cancelled.
SnapshotState(d, m, e, p, c, s, x) ==
    [downloadedBlocks |-> d, missingBlocks |-> m, error |-> e,
     projectDownloaded |-> p, completed |-> c, success |-> s, cancelled |-> x]

\* Error messages (the translated strings), by the place that raises them.
ErrAttach == "Failed to attach to the cloud project database"

ErrDownload == "Failed to download the cloud project"

\* The texts a failed fetch comes with: the body of an HTTP error response
\* (readAll) or the error string of the transport (getErrorString).
ResponseTexts == {"", "Not Found"}

\* "Failed to download the cloud project: %s" formatted with that text.
ErrFetch(text) == "Failed to download the cloud project: " \o text

ErrUpdate == "Failed to update the cloud project"

ErrDecompress == "Failed to decompress the cloud project block"

ErrHashes == "Failed to update the cloud project block hashes"

ErrBlock == "Failed to update the cloud project block"

(***************************************************************************)
(* uint64_t arithmetic and the framing of the project blob                 *)
(***************************************************************************)
\* A number below LimbBase as a uint64_t.
FromNat(n) == << n, 0, 0, 0 >>

MaxLimb == LimbBase - 1

\* a + b modulo 2^64.
AddU64(a, b) ==
    LET s1 == a[1] + b[1]
        s2 == a[2] + b[2] + (s1 \div LimbBase)
        s3 == a[3] + b[3] + (s2 \div LimbBase)
        s4 == a[4] + b[4] + (s3 \div LimbBase)
    IN  << s1 % LimbBase, s2 % LimbBase, s3 % LimbBase, s4 % LimbBase >>

\* a < b on uint64_t.
LessU64(a, b) ==
    \/ a[4] < b[4]
    \/ a[4] = b[4] /\ a[3] < b[3]
    \/ a[4] = b[4] /\ a[3] = b[3] /\ a[2] < b[2]
    \/ a[4] = b[4] /\ a[3] = b[3] /\ a[2] = b[2] /\ a[1] < b[1]

\* The payload of the project blob as far as the framing goes: its length
\* and the dictionary length its first 8 bytes declare (any value when the
\* payload is shorter than the prefix).
Payload(n, dict) == [size |-> n, dictSize |-> dict]

\* data.size() < sizeof(uint64_t) || data.size() < sizeof(uint64_t) + dictSize
Rejected(blob) ==
    \/ blob.size < SizeOfU64
    \/ LessU64(FromNat(blob.size), AddU64(FromNat(SizeOfU64), blob.dictSize))

\* The declared dictionary does not fit in what follows the prefix.
DictionaryTooLong(blob) ==
    /\ blob.size >= SizeOfU64
    /\ LessU64(FromNat(blob.size - SizeOfU64), blob.dictSize)

\* The framing check let through a dictionary that does not fit: the Bind
\* calls then read outside the payload.
Overrun(blob) == ~Rejected(blob) /\ DictionaryTooLong(blob)

\* A well-formed payload: the prefix alone, declaring an empty dictionary.
ValidBlob == Payload(SizeOfU64, FromNat(0))

\* A payload shorter than its length prefix.
ShortBlob == Payload(SizeOfU64 - 1, FromNat(0))

(***************************************************************************)
(* Constructor helpers                                                     *)
(***************************************************************************)
RECURSIVE SeqToSet(_)
SeqToSet(s) == IF s = <<>> THEN {} ELSE {Head(s)} \cup SeqToSet(Tail(s))

\* CalculateKnownBlocks: the stored hashes of this project that are in the
\* snapshot's (upper-cased) hash set and whose block id has a payload row in
\* the attached snapshot store.  statement: CreateStatement gave a
\* statement for the SELECT; when it gave none the result is empty
\* (if (!statement) return {};).
CalculateKnownBlocks(bs, store, statement) ==
    LET remoteBlocks == {ToUpper(h) : h \in SeqToSet(bs)}
    IN  IF ~statement THEN {}
        ELSE { r.hash : r \in { row \in store.hashRows :
                                   /\ row.hash \in remoteBlocks
                                   /\ row.blockId \in store.blockRows } }

BlobRequest == [kind |-> "blob", hash |-> ""]

BlockRequest(h) == [kind |-> "block", hash |-> ToUpper(h)]

\* The pending list: the project blob, then every block whose upper-cased
\* hash is not known, in snapshot order.
RECURSIVE BlockRequests(_, _)
BlockRequests(bs, known) ==
    IF bs = <<>> THEN <<>>
    ELSE IF ToUpper(Head(bs)) \in known
         THEN BlockRequests(Tail(bs), known)
         ELSE <<BlockRequest(Head(bs))>> \o BlockRequests(Tail(bs), known)

BuildRequests(bs, known) == <<BlobRequest>> \o BlockRequests(bs, known)

MissingBlocks(bs, known) == Len(bs) - Cardinality(known)

ShortCircuit(bs, known, rec) ==
    /\ Cardinality(known) = Len(bs)
    /\ rec # NoRecord
    /\ rec.snapshotId = SnapshotId
    /\ rec.status = "Synced"

\* MarkProjectInDB: the record of this project gets this snapshot's id and
\* the status.
MarkProjectInDB(successfulDownload) ==
    [snapshotId |-> SnapshotId,
     status |-> IF successfulDownload THEN "Synced" ELSE "Downloading"]

(***************************************************************************)
(* Request chains.  A chain is one dispatched request with the fetch it    *)
(* currently has (the first attempt or a retry) and the finished-callback  *)
(* that runs for it.  pc is the position of the thread running it:         *)
(*   issue       DownloadBlob entered, doGet not called yet                *)
(*   untracked   fetch issued, response not yet pushed to mResponses       *)
(*   flight      response tracked (or lost to the racing push_back),       *)
(*               finished-callback set, fetch not finished                 *)
(*   handler     fetch finished with NoError, success handler entered      *)
(*   store       transaction committed, counter / flag not yet updated     *)
(*   rp_cancel, rp_pd, rp_bd, rp_mark, rp_cb   positions in ReportProgress *)
(*   fail_store, fail_remove, fail_count, fail_bd, fail_pd, fail_cb        *)
(*               positions in OnFailure: the store, the two critical       *)
(*               sections of its RemoveRequest, the two loads, the report  *)
(*   remove, remove_count   the two critical sections of the RemoveRequest *)
(*               at the end of the finished-callback                       *)
(*   deref       OnBlockDownloaded at hashesStatement->Prepare with no     *)
(*               statement, inside the transaction scope                   *)
(***************************************************************************)
NewChain(req) ==
    [kind |-> req.kind, hash |-> req.hash, pc |-> "issue",
     retries |-> InitialRetries, sched |-> TRUE, tracked |-> FALSE,
     aborted |-> FALSE, inLock |-> FALSE, nested |-> FALSE,
     pd |-> FALSE, bd |-> 0, err |-> ""]

Chains == BagToSet(chains)

Replace(c, d) == (chains (-) SetToBag({c})) (+) SetToBag({d})

Drop(c) == chains (-) SetToBag({c})

RECURSIVE SumOver(_, _)
SumOver(B, S) ==
    IF S = {} THEN 0
    ELSE LET c == CHOOSE x \in S : TRUE
         IN  B[c] + SumOver(B, S \ {c})

\* Fetches issued and not finished.
InFlight(c) == c.pc \in {"untracked", "flight"}

NetworkOperationsInFlight == SumOver(chains, {c \in Chains : InFlight(c)})

WantsNextRequest == ~mCancelled /\ ~mFailed

\* notify_one on mRequestsCV: wakes the scheduler if it is blocked in wait.
Notified(s) == IF s.pc = "blocked" THEN [s EXCEPT !.notified = TRUE] ELSE s

\* What is kept of the callback invocations: n of them so far, completed,
\* errors and cancelled the numbers of those with Complete set, with a
\* non-empty Error and with Cancelled set, and last the most recent one
\* (by: the operation that emitted it).
NoReports ==
    [n |-> 0, completed |-> 0, errors |-> 0, cancelled |-> 0,
     last |-> [by |-> "none"] @@ SnapshotState(0, 0, "", FALSE, FALSE, FALSE, FALSE)]

\* mCallback(st), invoked by operation by.
Emit(by, st) ==
    [n |-> reports.n + 1,
     completed |-> reports.completed + (IF st.completed THEN 1 ELSE 0),
     errors |-> reports.errors + (IF st.error # "" THEN 1 ELSE 0),
     cancelled |-> reports.cancelled + (IF st.cancelled THEN 1 ELSE 0),
     last |-> [by |-> by] @@ st]

\* env.faults: failing outcomes the environment may still produce (-1: any
\* number); env.cancels: Cancel() calls the caller may still make;
\* env.threads: finished-callbacks the transport layer runs at a time.
Environment(f, k, t) == [faults |-> f, cancels |-> k, threads |-> t]

\* An environment whose server sends payload b for the project blob.
Serving(e, b) == e @@ [blob |-> b]

\* An environment whose owner may drop (destroy) the session d times.
Dropping(e, d) == e @@ [drops |-> d]

CanFail == env.faults # 0

\* The environment after one more failing outcome.
Spend == [env EXCEPT !.faults = IF @ > 0 THEN @ - 1 ELSE @]

\* Finished-callbacks running on transport threads.
Running(c) == c.pc \notin {"flight"} /\ ~c.sched

\* Finished-callbacks running now.
RunningCallbacks == SumOver(chains, {c \in Chains : Running(c)})

(***************************************************************************)
(* Initial states: before Sync() is called.  The inputs are the snapshot's *)
(* block list, the local store and the sync record.                        *)
(***************************************************************************)
InitSession ==
    /\ phase = "new"
    /\ mCancelled = FALSE
    /\ mFailed = FALSE
    /\ mDownloadedBlocks = 0
    /\ mMissingBlocks = 0
    /\ mProjectDownloaded = FALSE
    /\ mRequests = <<>>
    /\ mNextRequestIndex = 0
    /\ mRequestsInProgress = 0
    /\ requestsMutex = FALSE
    /\ dbWriteMutex = FALSE
    /\ sched = [pc |-> "none", notified |-> FALSE]
    /\ chains = EmptyBag
    /\ caller = [pc |-> "idle", bd |-> 0, pd |-> FALSE]
    /\ reports = NoReports
    /\ mResponses = "intact"

\* A store that holds both rows of the blocks in K.
StoreWith(K) ==
    [project |-> FALSE,
     hashRows |-> {[blockId |-> BlockIdOf(h), hash |-> h] : h \in K},
     blockRows |-> {BlockIdOf(h) : h \in K},
     attached |-> "no"]

\* The sessions whose interleavings are explored:
\*  - one block, known locally or not, with any sync record, a well-formed
\*    or a short project blob, an environment free to fail any number of
\*    times and a caller that cancels up to MaxCancels times and may then
\*    drop the session;
\*  - two distinct blocks in an environment that neither fails nor cancels;
\*  - more requests than the ceiling: the blob and MAX_CONCURRENT_REQUESTS
\*    - 1 + ExtraRequests blocks (of equal content, so their chains differ
\*    only in their progress), in an environment that fails CeilingFaults
\*    times or cancels CeilingCancels times (one or the other: a session
\*    at the ceiling that both fails and is cancelled is beyond what can
\*    be enumerated).
CeilingBlocks == [i \in 1 .. (MAX_CONCURRENT_REQUESTS - 1 + ExtraRequests) |-> "A"]

Scenarios ==
    { [blocks |-> <<"A">>, db |-> StoreWith(K), rec |-> r,
       env |-> Dropping(Serving(Environment(-1, MaxCancels, TransportThreads), b), 1)] :
         K \in {{}, {"A"}}, r \in SyncRecords, b \in {ValidBlob, ShortBlob} }
    \cup
    { [blocks |-> <<"A", "B">>, db |-> StoreWith({}), rec |-> NoRecord,
       env |-> Dropping(Serving(Environment(0, 0, TransportThreads), ValidBlob), 0)] }
    \cup
    { [blocks |-> CeilingBlocks, db |-> StoreWith({}), rec |-> NoRecord,
       env |-> Dropping(Serving(Environment(fk[1], fk[2], CeilingThreads),
                                ValidBlob), 0)] :
         fk \in {<< CeilingFaults, 0 >>, << 0, CeilingCancels >>} }

Init ==
    /\ InitSession
    /\ \E sc \in Scenarios :
         /\ blocks = sc.blocks
         /\ db = sc.db
         /\ syncRecord = sc.rec
         /\ env = sc.env

(***************************************************************************)
(* Sync(): the constructor, then the attach check of Sync.                 *)
(***************************************************************************)
\* The report of Sync when the constructor could not attach: { 0, 0, error },
\* the other members value-initialised.
AttachFailureState == SnapshotState(0, 0, ErrAttach, FALSE, FALSE, FALSE, FALSE)

\* The local store after ATTACH DATABASE succeeded.
Attach(store) == [store EXCEPT !.attached = "yes"]

\* The results ATTACH DATABASE ? AS mSnapshotDBName can give (line 45): the
\* file may not open, and the name "s_" + project id (line 35) is taken
\* while a session of the same project whose DETACH failed has left its
\* store attached to the connection.
AttachResults(store) == IF store.attached = "yes" THEN {FALSE} ELSE BOOLEAN

\* The constructor creates the ATTACH statement and uses it unchecked
\* (lines 44-45): when the store creates none (attachStmt), the constructor
\* is at attachStmt->Prepare with a null pointer, holding mDbWriteMutex, and
\* nothing of what follows is reached.  When the attach itself fails the
\* constructor returns at once; Sync reports and returns no session, which
\* destroys the object: its destructor runs DoCancel on an empty response
\* list, has no thread to join and, mAttached being false, detaches nothing.
Sync ==
    /\ phase = "new"
    /\ caller.pc = "idle"
    /\ \E attachStmt \in (IF CanFail THEN BOOLEAN ELSE {TRUE}),
          attached \in AttachResults(db) :
         IF ~attachStmt
         THEN /\ attached = (db.attached # "yes")
              /\ caller' = [caller EXCEPT !.pc = "s_deref"]
              /\ dbWriteMutex' = TRUE
              /\ env' = Spend
              /\ UNCHANGED << phase, db, syncRecord, mCancelled, mMissingBlocks,
                              mRequests, sched, reports >>
         ELSE IF ~attached
         THEN /\ phase' = "noattach"
              /\ reports' = Emit("attach", AttachFailureState)
              /\ mCancelled' = TRUE
              /\ UNCHANGED << db, syncRecord, mMissingBlocks, mRequests, sched, env,
                              caller, dbWriteMutex >>
         ELSE \E statement \in (IF CanFail THEN BOOLEAN ELSE {TRUE}) :
              LET knownBlocks == CalculateKnownBlocks(blocks, db, statement) IN
              /\ env' = IF statement THEN env ELSE Spend
              /\ db' = Attach(db)
              /\ UNCHANGED << mCancelled, caller, dbWriteMutex >>
              /\ IF ShortCircuit(blocks, knownBlocks, syncRecord)
                 THEN /\ phase' = "shortcut"
                      /\ reports' = Emit("shortcut",
                             SnapshotState(0, 0, "", TRUE, TRUE, TRUE, FALSE))
                      /\ UNCHANGED << syncRecord, mMissingBlocks, mRequests, sched >>
                 ELSE /\ phase' = "active"
                      /\ syncRecord' = MarkProjectInDB(FALSE)
                      /\ mMissingBlocks' = MissingBlocks(blocks, knownBlocks)
                      /\ mRequests' = BuildRequests(blocks, knownBlocks)
                      /\ sched' = [pc |-> "loop", notified |-> FALSE]
                      /\ UNCHANGED reports
    /\ UNCHANGED << blocks, mFailed, mDownloadedBlocks,
                    mProjectDownloaded, mNextRequestIndex, mRequestsInProgress,
                    requestsMutex, chains, mResponses >>

(***************************************************************************)
(* RequestsThread                                                          *)
(***************************************************************************)
schedFrame == << phase, blocks, db, syncRecord, mCancelled, mFailed,
                 mDownloadedBlocks, mMissingBlocks, mProjectDownloaded,
                 mRequests, dbWriteMutex, caller, reports, env, mResponses >>

\* while (WantsNextRequest())
SchedLoop ==
    /\ sched.pc = "loop"
    /\ sched' = [sched EXCEPT !.pc = IF WantsNextRequest THEN "lock" ELSE "done"]
    /\ UNCHANGED << schedFrame, mNextRequestIndex, mRequestsInProgress,
                    requestsMutex, chains >>

\* A wait predicate that is off by one: it lets the scheduler go on at the
\* ceiling itself.
WaitPredicateOffByOne ==
    mRequestsInProgress <= MAX_CONCURRENT_REQUESTS \/ ~WantsNextRequest

\* The predicate of mRequestsCV.wait.
WaitPredicate ==
    mRequestsInProgress < MAX_CONCURRENT_REQUESTS \/ ~WantsNextRequest

\* unique_lock { mRequestsMutex }; at the ceiling, wait(lock, pred) evaluates
\* its predicate first.
SchedLock ==
    /\ sched.pc = "lock"
    /\ ~requestsMutex
    /\ requestsMutex' = TRUE
    /\ sched' = [sched EXCEPT !.pc =
                    IF mRequestsInProgress >= MAX_CONCURRENT_REQUESTS /\ ~WaitPredicate
                    THEN "towait" ELSE "check"]
    /\ UNCHANGED << schedFrame, mNextRequestIndex, mRequestsInProgress, chains >>

\* wait: the mutex is released and the thread blocks, in one step.
SchedWait ==
    /\ sched.pc = "towait"
    /\ requestsMutex' = FALSE
    /\ sched' = [pc |-> "blocked", notified |-> FALSE]
    /\ UNCHANGED << schedFrame, mNextRequestIndex, mRequestsInProgress, chains >>

\* A notified (or spuriously woken) waiter takes the mutex again and
\* evaluates the predicate.
SchedWake(spurious) ==
    /\ sched.pc = "blocked"
    /\ sched.notified \/ spurious
    /\ ~requestsMutex
    /\ requestsMutex' = TRUE
    /\ sched' = [pc |-> IF WaitPredicate THEN "check" ELSE "towait",
                 notified |-> FALSE]
    /\ UNCHANGED << schedFrame, mNextRequestIndex, mRequestsInProgress, chains >>

SchedWakeNotified == SchedWake(FALSE)

SchedWakeSpurious == SchedWake(TRUE)

\* if (!WantsNextRequest()) return; if (index >= size) return;
\* request = mRequests[mNextRequestIndex++]; mRequestsInProgress++; unlock;
\* then DownloadBlob(request, 3) on this thread.
SchedCheck ==
    /\ sched.pc = "check"
    /\ requestsMutex' = FALSE
    /\ IF ~WantsNextRequest \/ mNextRequestIndex >= Len(mRequests)
       THEN /\ sched' = [sched EXCEPT !.pc = "done"]
            /\ UNCHANGED << mNextRequestIndex, mRequestsInProgress, chains >>
       ELSE /\ mNextRequestIndex' = mNextRequestIndex + 1
            /\ mRequestsInProgress' = mRequestsInProgress + 1
            /\ chains' = chains (+) SetToBag({NewChain(mRequests[mNextRequestIndex + 1])})
            /\ sched' = [sched EXCEPT !.pc = "download"]
    /\ UNCHANGED schedFrame

(***************************************************************************)
(* DownloadBlob and the finished-callback it installs                      *)
(***************************************************************************)
pushFrame == << phase, blocks, mRequests, mNextRequestIndex, requestsMutex,
               caller, mMissingBlocks >>

chainFrame == << pushFrame, mResponses >>

\* auto response = NetworkManager::GetInstance().doGet(request);
IssueFetch(c) ==
    /\ c.pc = "issue"
    /\ chains' = Replace(c, [c EXCEPT !.pc = "untracked"])
    /\ UNCHANGED << chainFrame, env, db, syncRecord, mCancelled, mFailed,
                    mDownloadedBlocks, mProjectDownloaded, mRequestsInProgress,
                    dbWriteMutex, sched, reports >>

\* Another thread is at an access to mResponses (the erase of RemoveRequest,
\* the abort loop of DoCancel, called by Cancel() or by the destructor, or
\* another push_back) while this one pushes without mResponsesMutex.
RacingAccess(c) ==
    \/ caller.pc \in {"c_abort", "d_abort"}
    \/ \E d \in Chains :
         /\ d # c \/ chains[c] > 1
         /\ d.pc \in {"untracked", "remove", "fail_remove"}

\* mResponses.push_back(response), not under mResponsesMutex: when it races
\* with another access the element may be lost, and the vector is left
\* with indeterminate contents (a slot that points to no response).  Then
\* setRequestFinishedCallback; DownloadBlob returns (on the scheduler thread
\* to the sleep and the loop head).
TrackResponse(c) ==
    /\ c.pc = "untracked"
    /\ \E kept \in (IF RacingAccess(c) THEN BOOLEAN ELSE {TRUE}) :
         chains' = Replace(c, [c EXCEPT !.pc = "flight", !.tracked = kept,
                                        !.sched = FALSE])
    /\ mResponses' = IF RacingAccess(c) THEN "raced" ELSE mResponses
    /\ sched' = IF c.sched THEN [sched EXCEPT !.pc = "loop"] ELSE sched
    /\ UNCHANGED << pushFrame, env, db, syncRecord, mCancelled, mFailed,
                    mDownloadedBlocks, mProjectDownloaded, mRequestsInProgress,
                    dbWriteMutex, reports >>

Outcomes == {"NoError", "HTTP4xx", "HTTP5xx", "Other"}

\* The fetch of the chain has finished: the callback no longer uses the
\* retry count, and abort() no longer affects the response.
Finished(c) == [c EXCEPT !.retries = 0, !.tracked = FALSE, !.aborted = FALSE]

\* OnFailure entered with message e; fromHandler: called from inside the
\* success handler, which returns to the RemoveRequest of the callback;
\* locked: called with mDbWriteMutex held.
Failing(c, e, fromHandler, locked) ==
    [Finished(c) EXCEPT !.pc = "fail_store", !.err = e, !.nested = fromHandler,
                        !.inLock = locked]

\* A classification that gives up only below zero retries left.
ClassifyRetryBelowZero(c, outcome, text) ==
    IF outcome = "OperationCancelled"
    THEN [Finished(c) EXCEPT !.pc = "remove"]
    ELSE IF outcome = "HTTP4xx" \/ (outcome \in {"HTTP5xx", "Other"} /\ c.retries < 0)
    THEN Failing(c, ErrFetch(text), FALSE, FALSE)
    ELSE IF outcome \in {"HTTP5xx", "Other"}
    THEN [c EXCEPT !.pc = "issue", !.retries = c.retries - 1,
                   !.tracked = FALSE, !.aborted = FALSE]
    ELSE [Finished(c) EXCEPT !.pc = "handler"]

\* A classification that drops the request on a transient error, as if the
\* fetch had been cancelled, instead of issuing it again.
ClassifyDropTransient(c, outcome, text) ==
    IF outcome = "OperationCancelled"
    THEN [Finished(c) EXCEPT !.pc = "remove"]
    ELSE IF outcome = "HTTP4xx" \/ (outcome \in {"HTTP5xx", "Other"} /\ c.retries <= 0)
    THEN Failing(c, ErrFetch(text), FALSE, FALSE)
    ELSE IF outcome \in {"HTTP5xx", "Other"}
    THEN [Finished(c) EXCEPT !.pc = "remove"]
    ELSE [Finished(c) EXCEPT !.pc = "handler"]

\* The classification at the head of the finished-callback.
Classify(c, outcome, text) ==
    IF outcome = "OperationCancelled"
    THEN [Finished(c) EXCEPT !.pc = "remove"]
    ELSE IF outcome = "HTTP4xx" \/ (outcome \in {"HTTP5xx", "Other"} /\ c.retries <= 0)
    THEN Failing(c, ErrFetch(text), FALSE, FALSE)
    ELSE IF outcome \in {"HTTP5xx", "Other"}
    THEN [c EXCEPT !.pc = "issue", !.retries = c.retries - 1,
                   !.tracked = FALSE, !.aborted = FALSE]
    ELSE [Finished(c) EXCEPT !.pc = "handler"]

\* The fetch finishes and its callback starts, when a transport thread is
\* free to run it; an aborted fetch finishes with OperationCancelled.
Finish(c) ==
    /\ c.pc = "flight"
    /\ RunningCallbacks < env.threads
    /\ \E outcome \in (IF c.aborted THEN {"OperationCancelled"} ELSE Outcomes) :
         /\ outcome \in {"HTTP4xx", "HTTP5xx", "Other"} => CanFail
         /\ env' = IF outcome \in {"HTTP4xx", "HTTP5xx", "Other"} THEN Spend ELSE env
         /\ \E text \in (IF outcome = "NoError" \/ outcome = "OperationCancelled"
                          THEN {""} ELSE ResponseTexts) :
              chains' = Replace(c, Classify(c, outcome, text))
    /\ UNCHANGED << chainFrame, db, syncRecord, mCancelled, mFailed,
                    mDownloadedBlocks, mProjectDownloaded, mRequestsInProgress,
                    dbWriteMutex, sched, reports >>

\* The store after a transaction that was begun on it and left without
\* Commit: the transaction object rolls it back, nothing it ran is kept.
Abandon(store) == store

\* The rows a committed block transaction leaves: both upserts.
CommitBlock(store, h) ==
    [store EXCEPT
       !.hashRows = {r \in store.hashRows : r.blockId # BlockIdOf(h)}
                       \cup {[blockId |-> BlockIdOf(h), hash |-> h]},
       !.blockRows = store.blockRows \cup {BlockIdOf(h)}]

\* A project transaction that leaves nothing in the store.
CommitNothing(store) == store

\* The project record upsert and the autosave delete.
CommitProject(store) == [store EXCEPT !.project = TRUE]

\* OnProjectBlobDownloaded up to the commit: the framing checks, then the
\* transaction under mDbWriteMutex.  When the framing check lets through a
\* dictionary length that overruns the payload, the Bind calls read outside
\* the buffer: the statement may fail, the transaction may commit what was
\* read, or the process may stop (Crash).
BlobHandler(c) ==
    /\ c.pc = "handler"
    /\ c.kind = "blob"
    /\ IF Rejected(env.blob)
       THEN /\ chains' = Replace(c, Failing(c, ErrDownload, TRUE, FALSE))
            /\ UNCHANGED << db, dbWriteMutex, env >>
       ELSE /\ ~dbWriteMutex
            /\ \/ /\ CanFail \/ Overrun(env.blob) \/ db.attached # "yes"
                  /\ env' = IF Overrun(env.blob) \/ db.attached # "yes"
                            THEN env ELSE Spend
                  /\ chains' = Replace(c, Failing(c, ErrUpdate, TRUE, TRUE))
                  /\ dbWriteMutex' = TRUE
                  /\ db' = Abandon(db)
               \/ /\ db.attached = "yes"
                  /\ chains' = Replace(c, [c EXCEPT !.pc = "store"])
                  /\ db' = CommitProject(db)
                  /\ UNCHANGED << dbWriteMutex, env >>
    /\ UNCHANGED << chainFrame, syncRecord, mCancelled, mFailed,
                    mDownloadedBlocks, mProjectDownloaded, mRequestsInProgress,
                    sched, reports >>

\* A block handler that begins its transaction without mDbWriteMutex.
BlockHandlerUnlocked(c) ==
    /\ c.pc = "handler"
    /\ c.kind = "block"
    /\ \/ /\ CanFail
          /\ env' = Spend
          /\ chains' = Replace(c, Failing(c, ErrDecompress, TRUE, FALSE))
          /\ UNCHANGED << db, dbWriteMutex >>
       \/ /\ \/ /\ CanFail
                /\ env' = Spend
                /\ chains' = Replace(c, [c EXCEPT !.pc = "deref", !.inLock = TRUE])
                /\ dbWriteMutex' = TRUE
                /\ UNCHANGED db
             \/ /\ CanFail
                /\ env' = Spend
                /\ \E e \in (IF db.attached = "yes"
                              THEN {ErrHashes, ErrBlock, ErrUpdate}
                              ELSE {ErrHashes}) :
                     chains' = Replace(c, Failing(c, e, TRUE, TRUE))
                /\ dbWriteMutex' = TRUE
                /\ db' = Abandon(db)
             \/ /\ db.attached # "yes"
                /\ chains' = Replace(c, Failing(c, ErrBlock, TRUE, TRUE))
                /\ dbWriteMutex' = TRUE
                /\ db' = Abandon(db)
                /\ UNCHANGED env
             \/ /\ db.attached = "yes"
                /\ chains' = Replace(c, [c EXCEPT !.pc = "store"])
                /\ db' = CommitBlock(db, c.hash)
                /\ UNCHANGED << dbWriteMutex, env >>
    /\ UNCHANGED << chainFrame, syncRecord, mCancelled, mFailed,
                    mDownloadedBlocks, mProjectDownloaded, mRequestsInProgress,
                    sched, reports >>

\* OnBlockDownloaded up to the commit: DecompressBlock, then the
\* transaction under mDbWriteMutex.  The first statement of the transaction
\* is used unchecked (lines 379-386): when the store creates none, the
\* handler is at hashesStatement->Prepare with a null pointer, inside the
\* transaction scope.  The second one is tested (line 402) and, like every
\* statement that runs and fails and like the commit, leads to OnFailure.
\* block_hashes is a table of the main database: its INSERT runs, and may
\* fail, whether or not the snapshot database is attached.  The second
\* statement names mSnapshotDBName: without the attachment it is not
\* created, and the statements after it are not reached.
BlockHandler(c) ==
    /\ c.pc = "handler"
    /\ c.kind = "block"
    /\ \/ /\ CanFail
          /\ env' = Spend
          /\ chains' = Replace(c, Failing(c, ErrDecompress, TRUE, FALSE))
          /\ UNCHANGED << db, dbWriteMutex >>
       \/ /\ ~dbWriteMutex
          /\ \/ /\ CanFail
                /\ env' = Spend
                /\ chains' = Replace(c, [c EXCEPT !.pc = "deref", !.inLock = TRUE])
                /\ dbWriteMutex' = TRUE
                /\ UNCHANGED db
             \/ /\ CanFail
                /\ env' = Spend
                /\ \E e \in (IF db.attached = "yes"
                              THEN {ErrHashes, ErrBlock, ErrUpdate}
                              ELSE {ErrHashes}) :
                     chains' = Replace(c, Failing(c, e, TRUE, TRUE))
                /\ dbWriteMutex' = TRUE
                /\ db' = Abandon(db)
             \/ /\ db.attached # "yes"
                /\ chains' = Replace(c, Failing(c, ErrBlock, TRUE, TRUE))
                /\ dbWriteMutex' = TRUE
                /\ db' = Abandon(db)
                /\ UNCHANGED env
             \/ /\ db.attached = "yes"
                /\ chains' = Replace(c, [c EXCEPT !.pc = "store"])
                /\ db' = CommitBlock(db, c.hash)
                /\ UNCHANGED << dbWriteMutex, env >>
    /\ UNCHANGED << chainFrame, syncRecord, mCancelled, mFailed,
                    mDownloadedBlocks, mProjectDownloaded, mRequestsInProgress,
                    sched, reports >>

\* mProjectDownloaded.store(true) / mDownloadedBlocks.fetch_add(1)
StoreProgress(c) ==
    /\ c.pc = "store"
    /\ IF c.kind = "blob"
       THEN mProjectDownloaded' = TRUE /\ UNCHANGED mDownloadedBlocks
       ELSE mDownloadedBlocks' = mDownloadedBlocks + 1 /\ UNCHANGED mProjectDownloaded
    /\ chains' = Replace(c, [c EXCEPT !.pc = "rp_cancel"])
    /\ UNCHANGED << chainFrame, env, db, syncRecord, mCancelled, mFailed,
                    mRequestsInProgress, dbWriteMutex, sched, reports >>

(***************************************************************************)
(* ReportProgress                                                          *)
(***************************************************************************)
\* if (mCancelled.load()) return;
ReportCheckCancelled(c) ==
    /\ c.pc = "rp_cancel"
    /\ chains' = Replace(c, [c EXCEPT !.pc = IF mCancelled THEN "remove" ELSE "rp_pd"])
    /\ UNCHANGED << chainFrame, env, db, syncRecord, mCancelled, mFailed,
                    mDownloadedBlocks, mProjectDownloaded, mRequestsInProgress,
                    dbWriteMutex, sched, reports >>

\* projectDownloaded = mProjectDownloaded.load()
ReportLoadProject(c) ==
    /\ c.pc = "rp_pd"
    /\ chains' = Replace(c, [c EXCEPT !.pc = "rp_bd", !.pd = mProjectDownloaded])
    /\ UNCHANGED << chainFrame, env, db, syncRecord, mCancelled, mFailed,
                    mDownloadedBlocks, mProjectDownloaded, mRequestsInProgress,
                    dbWriteMutex, sched, reports >>

\* A completion test that looks at the block counter alone.
CompletedByBlocks(blocksDownloaded, projectDownloaded) ==
    blocksDownloaded = mMissingBlocks

Completed(blocksDownloaded, projectDownloaded) ==
    blocksDownloaded = mMissingBlocks /\ projectDownloaded

\* blocksDownloaded = mDownloadedBlocks.load(); completed is computed.
ReportLoadBlocks(c) ==
    /\ c.pc = "rp_bd"
    /\ chains' = Replace(c, [c EXCEPT !.bd = mDownloadedBlocks,
            !.pc = IF Completed(mDownloadedBlocks, c.pd) THEN "rp_mark" ELSE "rp_cb"])
    /\ UNCHANGED << chainFrame, env, db, syncRecord, mCancelled, mFailed,
                    mDownloadedBlocks, mProjectDownloaded, mRequestsInProgress,
                    dbWriteMutex, sched, reports >>

\* if (completed) { lock mDbWriteMutex; MarkProjectInDB(true); }
ReportMark(c) ==
    /\ c.pc = "rp_mark"
    /\ ~dbWriteMutex
    /\ syncRecord' = MarkProjectInDB(TRUE)
    /\ chains' = Replace(c, [c EXCEPT !.pc = "rp_cb"])
    /\ UNCHANGED << chainFrame, env, db, mCancelled, mFailed,
                    mDownloadedBlocks, mProjectDownloaded, mRequestsInProgress,
                    dbWriteMutex, sched, reports >>

ProgressState(c) ==
    SnapshotState(c.bd, mMissingBlocks, "", c.pd,
                  Completed(c.bd, c.pd), Completed(c.bd, c.pd), FALSE)

\* mCallback({ blocksDownloaded, mMissingBlocks, {}, projectDownloaded,
\*             completed, completed, false });
ReportCallback(c) ==
    /\ c.pc = "rp_cb"
    /\ reports' = Emit("progress", ProgressState(c))
    /\ chains' = Replace(c, [c EXCEPT !.pc = "remove", !.pd = FALSE, !.bd = 0])
    /\ UNCHANGED << chainFrame, env, db, syncRecord, mCancelled, mFailed,
                    mDownloadedBlocks, mProjectDownloaded, mRequestsInProgress,
                    dbWriteMutex, sched >>

(***************************************************************************)
(* RemoveRequest and OnFailure                                             *)
(***************************************************************************)
\* RemoveRequest, first critical section: the response is erased from
\* mResponses under mResponsesMutex (a later abort loop does not reach it).
EraseResponse(c) ==
    /\ c.pc = "remove"
    /\ chains' = Replace(c, [c EXCEPT !.pc = "remove_count", !.tracked = FALSE])
    /\ UNCHANGED << chainFrame, env, db, syncRecord, mCancelled, mFailed,
                    mDownloadedBlocks, mProjectDownloaded, mRequestsInProgress,
                    dbWriteMutex, sched, reports >>

\* RemoveRequest, second critical section: under mRequestsMutex,
\* mRequestsInProgress-- and notify_one.  This is the one at the end of the
\* finished-callback: the chain is over.
RemoveRequest(c) ==
    /\ c.pc = "remove_count"
    /\ ~requestsMutex
    /\ mRequestsInProgress' = mRequestsInProgress - 1
    /\ sched' = Notified(sched)
    /\ chains' = Drop(c)
    /\ UNCHANGED << chainFrame, env, db, syncRecord, mCancelled, mFailed,
                    mDownloadedBlocks, mProjectDownloaded, dbWriteMutex, reports >>

\* mFailed.store(true)
FailStore(c) ==
    /\ c.pc = "fail_store"
    /\ mFailed' = TRUE
    /\ chains' = Replace(c, [c EXCEPT !.pc = "fail_remove"])
    /\ UNCHANGED << chainFrame, env, db, syncRecord, mCancelled,
                    mDownloadedBlocks, mProjectDownloaded, mRequestsInProgress,
                    dbWriteMutex, sched, reports >>

\* RemoveRequest(response) inside OnFailure, first critical section: the
\* erase under mResponsesMutex.
FailErase(c) ==
    /\ c.pc = "fail_remove"
    /\ chains' = Replace(c, [c EXCEPT !.pc = "fail_count", !.tracked = FALSE])
    /\ UNCHANGED << chainFrame, env, db, syncRecord, mCancelled, mFailed,
                    mDownloadedBlocks, mProjectDownloaded, mRequestsInProgress,
                    dbWriteMutex, sched, reports >>

\* RemoveRequest(response) inside OnFailure, second critical section:
\* under mRequestsMutex, mRequestsInProgress-- and notify_one.
FailRemove(c) ==
    /\ c.pc = "fail_count"
    /\ ~requestsMutex
    /\ mRequestsInProgress' = mRequestsInProgress - 1
    /\ sched' = Notified(sched)
    /\ chains' = Replace(c, [c EXCEPT !.pc = "fail_bd"])
    /\ UNCHANGED << chainFrame, env, db, syncRecord, mCancelled, mFailed,
                    mDownloadedBlocks, mProjectDownloaded, dbWriteMutex, reports >>

\* mDownloadedBlocks.load(), the first initialiser of OnFailure's report.
FailLoadBlocks(c) ==
    /\ c.pc = "fail_bd"
    /\ chains' = Replace(c, [c EXCEPT !.pc = "fail_pd", !.bd = mDownloadedBlocks])
    /\ UNCHANGED << chainFrame, env, db, syncRecord, mCancelled, mFailed,
                    mDownloadedBlocks, mProjectDownloaded, mRequestsInProgress,
                    dbWriteMutex, sched, reports >>

\* mProjectDownloaded.load(), the fourth initialiser of OnFailure's report.
FailLoadProject(c) ==
    /\ c.pc = "fail_pd"
    /\ chains' = Replace(c, [c EXCEPT !.pc = "fail_cb", !.pd = mProjectDownloaded])
    /\ UNCHANGED << chainFrame, env, db, syncRecord, mCancelled, mFailed,
                    mDownloadedBlocks, mProjectDownloaded, mRequestsInProgress,
                    dbWriteMutex, sched, reports >>

FailureState(blocksDownloaded, projectDownloaded, e) ==
    SnapshotState(blocksDownloaded, mMissingBlocks, e, projectDownloaded,
                  TRUE, FALSE, FALSE)

\* mCallback({ loaded blocks, mMissingBlocks, error, loaded flag, true,
\* false, false }) with the values loaded before; OnFailure returns: a
\* caller inside the transaction scope leaves it (rollback, mDbWriteMutex
\* released); a success handler returns to the callback's RemoveRequest.
FailCallback(c) ==
    /\ c.pc = "fail_cb"
    /\ reports' = Emit("failure", FailureState(c.bd, c.pd, c.err))
    /\ dbWriteMutex' = IF c.inLock THEN FALSE ELSE dbWriteMutex
    /\ chains' = IF c.nested
                 THEN Replace(c, [c EXCEPT !.pc = "remove", !.err = "",
                                           !.nested = FALSE, !.inLock = FALSE,
                                           !.pd = FALSE, !.bd = 0])
                 ELSE Drop(c)
    /\ UNCHANGED << chainFrame, env, db, syncRecord, mCancelled, mFailed,
                    mDownloadedBlocks, mProjectDownloaded, mRequestsInProgress,
                    sched >>

(***************************************************************************)
(* Cancel()                                                                *)
(***************************************************************************)
callerFrame == << phase, blocks, db, syncRecord, mFailed, mDownloadedBlocks,
                  mMissingBlocks, mProjectDownloaded, mRequests,
                  mNextRequestIndex, mRequestsInProgress, requestsMutex,
                  dbWriteMutex, mResponses >>

\* DoCancel: mCancelled.store(true); mRequestsCV.notify_one();
CancelStore ==
    /\ phase \in {"active", "shortcut"}
    /\ caller.pc = "idle"
    /\ env.cancels > 0
    /\ env' = [env EXCEPT !.cancels = @ - 1]
    /\ mCancelled' = TRUE
    /\ sched' = Notified(sched)
    /\ caller' = [caller EXCEPT !.pc = "c_abort"]
    /\ UNCHANGED << callerFrame, chains, reports >>

\* response->abort() on a response: a fetch in flight is aborted, a
\* finished one is not affected.
Abort(c) ==
    IF c.tracked /\ c.pc = "flight" THEN [c EXCEPT !.aborted = TRUE] ELSE c

\* for (auto& response : mResponses) response->abort();
AbortAll(B) ==
    LET img == {Abort(c) : c \in BagToSet(B)}
    IN  [d \in img |-> SumOver(B, {c \in BagToSet(B) : Abort(c) = d})]

\* DoCancel: under mResponsesMutex, abort every response of mResponses.
CancelAbort ==
    /\ caller.pc = "c_abort"
    /\ chains' = AbortAll(chains)
    /\ caller' = [caller EXCEPT !.pc = "c_load"]
    /\ UNCHANGED << callerFrame, mCancelled, sched, reports, env >>

\* mDownloadedBlocks.load(), the first initialiser of Cancel's report.
CancelLoadBlocks ==
    /\ caller.pc = "c_load"
    /\ caller' = [caller EXCEPT !.pc = "c_load_pd", !.bd = mDownloadedBlocks]
    /\ UNCHANGED << callerFrame, mCancelled, sched, chains, reports, env >>

\* mProjectDownloaded.load(), the fourth initialiser of Cancel's report.
CancelLoadProject ==
    /\ caller.pc = "c_load_pd"
    /\ caller' = [caller EXCEPT !.pc = "c_cb", !.pd = mProjectDownloaded]
    /\ UNCHANGED << callerFrame, mCancelled, sched, chains, reports, env >>

CancelState(blocksDownloaded, projectDownloaded) ==
    SnapshotState(blocksDownloaded, mMissingBlocks, "", projectDownloaded,
                  TRUE, FALSE, TRUE)

\* mCallback({ ..., true, false, true }); Cancel returns.
CancelCallback ==
    /\ caller.pc = "c_cb"
    /\ reports' = Emit("cancel", CancelState(caller.bd, caller.pd))
    /\ caller' = [pc |-> "idle", bd |-> 0, pd |-> FALSE]
    /\ UNCHANGED << callerFrame, mCancelled, sched, chains, env >>

(***************************************************************************)
(* ~RemoteProjectSnapshot(): the owner drops the session.                  *)
(***************************************************************************)
\* DoCancel of the destructor: mCancelled.store(true); notify_one.
DestroyStore ==
    /\ phase \in {"active", "shortcut"}
    /\ caller.pc = "idle"
    /\ env.drops > 0
    /\ env' = [env EXCEPT !.drops = @ - 1]
    /\ phase' = "destroying"
    /\ mCancelled' = TRUE
    /\ sched' = Notified(sched)
    /\ caller' = [caller EXCEPT !.pc = "d_abort"]
    /\ UNCHANGED << blocks, db, syncRecord, mFailed, mDownloadedBlocks,
                    mMissingBlocks, mProjectDownloaded, mRequests,
                    mNextRequestIndex, mRequestsInProgress, requestsMutex,
                    dbWriteMutex, chains, reports, mResponses >>

\* DoCancel of the destructor: the abort loop.
DestroyAbort ==
    /\ caller.pc = "d_abort"
    /\ chains' = AbortAll(chains)
    /\ caller' = [caller EXCEPT !.pc = "d_join"]
    /\ UNCHANGED << callerFrame, mCancelled, sched, reports, env >>

\* if (mRequestsThread.joinable()) mRequestsThread.join();
DestroyJoin ==
    /\ caller.pc = "d_join"
    /\ sched.pc \in {"none", "done"}
    /\ caller' = [caller EXCEPT !.pc = "d_detach"]
    /\ UNCHANGED << callerFrame, mCancelled, sched, chains, reports, env >>

\* The local store after DETACH DATABASE.
Detach(store) == [store EXCEPT !.attached = "detached"]

\* if (mAttached) { lock mDbWriteMutex; DETACH DATABASE }; then the members
\* are destroyed and the object is gone.  The DETACH statement is used
\* unchecked (lines 104-105): when the store creates none, the destructor is
\* at detachStmt->Prepare with a null pointer, holding mDbWriteMutex, and the
\* store stays attached.  The result of Run is not looked at (line 105):
\* when the statement runs and fails (ran is FALSE) the destructor returns
\* all the same and the store stays attached.
DestroyDetach ==
    /\ caller.pc = "d_detach"
    /\ ~dbWriteMutex
    /\ \E detachStmt \in (IF CanFail /\ db.attached = "yes" THEN BOOLEAN ELSE {TRUE}) :
         IF detachStmt
         THEN \E ran \in (IF CanFail /\ db.attached = "yes" THEN BOOLEAN ELSE {TRUE}) :
              /\ db' = IF db.attached = "yes" /\ ran THEN Detach(db) ELSE db
              /\ env' = IF ran THEN env ELSE Spend
              /\ phase' = "destroyed"
              /\ caller' = [caller EXCEPT !.pc = "gone"]
              /\ UNCHANGED dbWriteMutex
         ELSE /\ caller' = [caller EXCEPT !.pc = "d_deref"]
              /\ dbWriteMutex' = TRUE
              /\ env' = Spend
              /\ UNCHANGED << db, phase >>
    /\ UNCHANGED << blocks, syncRecord, mCancelled, mFailed, mDownloadedBlocks,
                    mMissingBlocks, mProjectDownloaded, mRequests,
                    mNextRequestIndex, mRequestsInProgress, requestsMutex,
                    sched, chains, reports, mResponses >>

(***************************************************************************)
(* Undefined behaviour: a finished-callback that runs on the destroyed     *)
(* session (it captured this), a project-blob handler that reads outside   *)
(* its payload, a push_back on mResponses that races with another access   *)
(* to the vector, everything after such a race (the vector and the heap    *)
(* are damaged: the fault may show at a later access to the vector, when a *)
(* thread exits or at the join), and a thread at the dereference of a      *)
(* statement that was not created.  On a race or a stray read the program  *)
(* may go on as if nothing had happened (the other actions) or stop; a     *)
(* thread at a null statement does not go on.                              *)
(***************************************************************************)
\* A thread is at statement->Prepare with no statement: the constructor with
\* attachStmt (line 45), OnBlockDownloaded with hashesStatement (lines
\* 384-386), the destructor with detachStmt (line 105).
NullDereference ==
    \/ caller.pc \in {"s_deref", "d_deref"}
    \/ \E c \in Chains : c.pc = "deref"

UndefinedBehaviour ==
    \/ /\ phase = "destroyed"
       /\ \E c \in Chains : Running(c)
    \/ \E c \in Chains :
         c.pc = "handler" /\ c.kind = "blob" /\ Overrun(env.blob)
    \/ \E c \in Chains :
         c.pc = "untracked" /\ RacingAccess(c)
    \/ mResponses = "raced"
    \/ NullDereference

\* The process stops: every thread ends where it is (a scheduler that had
\* not returned from RequestsThread, a caller whose destructor had not
\* returned, never do), no callback runs any more, and what was committed
\* to the store and the reports already made stay.
Crash ==
    /\ phase # "crashed"
    /\ UndefinedBehaviour
    /\ phase' = "crashed"
    /\ chains' = EmptyBag
    /\ sched' = IF sched.pc \in {"none", "done"} THEN sched
                ELSE [pc |-> "stopped", notified |-> FALSE]
    /\ caller' = IF caller.pc = "gone" THEN caller
                 ELSE [pc |-> "stopped", bd |-> 0, pd |-> FALSE]
    /\ requestsMutex' = FALSE
    /\ dbWriteMutex' = FALSE
    /\ UNCHANGED << blocks, db, syncRecord, mCancelled, mFailed,
                    mDownloadedBlocks, mMissingBlocks, mProjectDownloaded,
                    mRequests, mNextRequestIndex, mRequestsInProgress,
                    reports, env, mResponses >>

(***************************************************************************)
(* Specification                                                           *)
(***************************************************************************)
Transport ==
    \/ \E c \in Chains : IssueFetch(c)
    \/ \E c \in Chains : TrackResponse(c)
    \/ \E c \in Chains : Finish(c)
    \/ \E c \in Chains : BlobHandler(c)
    \/ \E c \in Chains : BlockHandler(c)
    \/ \E c \in Chains : StoreProgress(c)
    \/ \E c \in Chains : ReportCheckCancelled(c)
    \/ \E c \in Chains : ReportLoadProject(c)
    \/ \E c \in Chains : ReportLoadBlocks(c)
    \/ \E c \in Chains : ReportMark(c)
    \/ \E c \in Chains : ReportCallback(c)
    \/ \E c \in Chains : EraseResponse(c)
    \/ \E c \in Chains : RemoveRequest(c)
    \/ \E c \in Chains : FailStore(c)
    \/ \E c \in Chains : FailErase(c)
    \/ \E c \in Chains : FailRemove(c)
    \/ \E c \in Chains : FailLoadBlocks(c)
    \/ \E c \in Chains : FailLoadProject(c)
    \/ \E c \in Chains : FailCallback(c)

Scheduler ==
    \/ SchedLoop
    \/ SchedLock
    \/ SchedWait
    \/ SchedWakeNotified
    \/ SchedWakeSpurious
    \/ SchedCheck

Cancel ==
    \/ CancelStore
    \/ CancelAbort
    \/ CancelLoadBlocks
    \/ CancelLoadProject
    \/ CancelCallback

Destroy ==
    \/ DestroyStore
    \/ DestroyAbort
    \/ DestroyJoin
    \/ DestroyDetach

Next == Sync \/ Scheduler \/ Transport \/ Cancel \/ Destroy \/ Crash

Spec == Init /\ [][Next]_vars

(***************************************************************************)
(* Construction alone, over every snapshot block list of up to MaxBlocks   *)
(* hashes, every local store over those hashes and every sync record; the  *)
(* process stops when the constructor has no ATTACH statement.             *)
(***************************************************************************)
RECURSIVE BlockLists(_)
BlockLists(n) ==
    IF n = 0 THEN {<<>>}
    ELSE LET shorter == BlockLists(n - 1)
         IN  shorter \cup {Append(bs, h) : bs \in {x \in shorter : Len(x) = n - 1},
                                           h \in Hashes}

\* Stores written by earlier sessions: hash rows (upper case, as stored) and
\* payload rows, each present or not.
Stores ==
    { [project |-> p,
       hashRows |-> {[blockId |-> BlockIdOf(h), hash |-> h] : h \in H},
       blockRows |-> B,
       attached |-> "no"] :
         p \in BOOLEAN, H \in SUBSET UpperHashes, B \in SUBSET UpperHashes }

InitCtor ==
    /\ InitSession
    /\ blocks \in BlockLists(MaxBlocks)
    /\ db \in Stores
    /\ syncRecord \in SyncRecords
    /\ env \in {Environment(f, 0, 0) : f \in 0 .. CtorFaults}

CtorSpec == InitCtor /\ [][Sync \/ Crash]_vars

(***************************************************************************)
(* The download of the project blob alone (a snapshot without blocks, an   *)
(* environment that neither fails nor cancels), over every framing of the  *)
(* payload: lengths up to MaxPayload, and declared dictionary lengths that *)
(* are small, that carry into each limb, or that are within MaxPayload of  *)
(* 2^64.                                                                   *)
(***************************************************************************)
\* 2^64 - k as a uint64_t, for 1 <= k <= LimbBase.
Below(k) == << LimbBase - k, MaxLimb, MaxLimb, MaxLimb >>

DictLengths ==
    {FromNat(k) : k \in 0 .. MaxPayload}
    \cup {Below(k) : k \in 1 .. MaxPayload}
    \cup { << 0, 1, 0, 0 >>, << 0, 0, 1, 0 >>, << 0, 0, 0, 1 >>,
           << MaxLimb, 0, 0, 0 >>, << 0, 0, 0, MaxLimb >> }

InitBlob ==
    /\ InitSession
    /\ blocks = << >>
    /\ db = StoreWith({})
    /\ syncRecord = NoRecord
    /\ \E n \in 0 .. MaxPayload, dict \in DictLengths :
         env = Dropping(Serving(Environment(0, 0, 1), Payload(n, dict)), 0)

NextBlob ==
    \/ Sync
    \/ SchedLoop
    \/ SchedLock
    \/ SchedCheck
    \/ \E c \in Chains : IssueFetch(c)
    \/ \E c \in Chains : TrackResponse(c)
    \/ \E c \in Chains : Finish(c)
    \/ \E c \in Chains : BlobHandler(c)
    \/ \E c \in Chains : StoreProgress(c)
    \/ \E c \in Chains : ReportCheckCancelled(c)
    \/ \E c \in Chains : ReportLoadProject(c)
    \/ \E c \in Chains : ReportLoadBlocks(c)
    \/ \E c \in Chains : ReportMark(c)
    \/ \E c \in Chains : ReportCallback(c)
    \/ \E c \in Chains : EraseResponse(c)
    \/ \E c \in Chains : RemoveRequest(c)
    \/ \E c \in Chains : FailStore(c)
    \/ \E c \in Chains : FailErase(c)
    \/ \E c \in Chains : FailRemove(c)
    \/ \E c \in Chains : FailLoadBlocks(c)
    \/ \E c \in Chains : FailLoadProject(c)
    \/ \E c \in Chains : FailCallback(c)
    \/ Crash

BlobSpec == InitBlob /\ [][NextBlob]_vars

(***************************************************************************)
(* Sessions that nothing disturbs, under fair scheduling: no fetch fails,  *)
(* every payload is valid, every transaction commits, Cancel() is not      *)
(* called and the session is not dropped; the snapshot's hashes are        *)
(* pairwise distinct.  The largest session has more requests than the      *)
(* ceiling, so that the scheduler waits.                                   *)
(***************************************************************************)
\* Finished-callbacks the transport layer runs at a time in these sessions.
LiveThreads == 1

LiveBlocks == << "A", "B", "C", "D", "E", "F" >>

QuietEnvironment(t) == Dropping(Serving(Environment(0, 0, t), ValidBlob), 0)

InitLive ==
    /\ InitSession
    /\ \/ /\ blocks \in {<< >>, <<"A">>}
          /\ \E K \in SUBSET {"A"} : db = StoreWith(K)
          /\ syncRecord \in SyncRecords
          /\ env = QuietEnvironment(TransportThreads)
       \/ /\ blocks = <<"a", "B">>
          /\ \E K \in SUBSET {"A", "B"} : db = StoreWith(K)
          /\ syncRecord = NoRecord
          /\ env = QuietEnvironment(TransportThreads)
       \/ /\ blocks = LiveBlocks
          /\ db = StoreWith({})
          /\ syncRecord = NoRecord
          /\ env = QuietEnvironment(LiveThreads)

\* What happens in these sessions: the scheduler and the success path of
\* every request.
NextLive ==
    \/ Sync
    \/ Scheduler
    \/ \E c \in Chains : IssueFetch(c)
    \/ \E c \in Chains : TrackResponse(c)
    \/ \E c \in Chains : Finish(c)
    \/ \E c \in Chains : BlobHandler(c)
    \/ \E c \in Chains : BlockHandler(c)
    \/ \E c \in Chains : StoreProgress(c)
    \/ \E c \in Chains : ReportCheckCancelled(c)
    \/ \E c \in Chains : ReportLoadProject(c)
    \/ \E c \in Chains : ReportLoadBlocks(c)
    \/ \E c \in Chains : ReportMark(c)
    \/ \E c \in Chains : ReportCallback(c)
    \/ \E c \in Chains : EraseResponse(c)
    \/ \E c \in Chains : RemoveRequest(c)
    \/ Crash

\* Every thread that can take a step eventually takes one, and a thread
\* that needs a mutex gets it if the mutex is free again and again (strong
\* fairness for the steps that lock mRequestsMutex or mDbWriteMutex).  A
\* waiter is not owed a spurious wake-up, and nothing obliges the program
\* to stop on undefined behaviour.
Fairness ==
    /\ WF_vars(Sync)
    /\ WF_vars(SchedLoop)
    /\ SF_vars(SchedLock)
    /\ WF_vars(SchedWait)
    /\ SF_vars(SchedWakeNotified)
    /\ WF_vars(SchedCheck)
    /\ WF_vars(\E c \in Chains : IssueFetch(c))
    /\ WF_vars(\E c \in Chains : TrackResponse(c))
    /\ WF_vars(\E c \in Chains : Finish(c))
    /\ SF_vars(\E c \in Chains : BlobHandler(c))
    /\ SF_vars(\E c \in Chains : BlockHandler(c))
    /\ WF_vars(\E c \in Chains : StoreProgress(c))
    /\ WF_vars(\E c \in Chains : ReportCheckCancelled(c))
    /\ WF_vars(\E c \in Chains : ReportLoadProject(c))
    /\ WF_vars(\E c \in Chains : ReportLoadBlocks(c))
    /\ SF_vars(\E c \in Chains : ReportMark(c))
    /\ WF_vars(\E c \in Chains : ReportCallback(c))
    /\ WF_vars(\E c \in Chains : EraseResponse(c))
    /\ SF_vars(\E c \in Chains : RemoveRequest(c))

LiveSpec == InitLive /\ [][NextLive]_vars /\ Fairness

(***************************************************************************)
(* Sessions whose server may answer with an error InitialRetries times:    *)
(* up to three requests, any of which may be the one that is retried.      *)
(***************************************************************************)
RetryStores == {StoreWith(K) : K \in SUBSET {"A"}}

InitRetry ==
    /\ InitSession
    /\ blocks \in {<< >>, <<"A">>, <<"a", "B">>}
    /\ db \in RetryStores
    /\ syncRecord = NoRecord
    /\ env = Dropping(Serving(Environment(InitialRetries, 0, TransportThreads),
                              ValidBlob), 0)

NextRetry ==
    \/ Sync
    \/ SchedLoop
    \/ SchedLock
    \/ SchedCheck
    \/ Transport
    \/ Crash

RetrySpec == InitRetry /\ [][NextRetry]_vars

(***************************************************************************)
(* The session that reaches the ceiling, in each of the environments that  *)
(* make the scheduler leave its loop: nothing happens (the cursor reaches  *)
(* the end), one failure, one Cancel(), or the owner dropping the session. *)
(***************************************************************************)
ExitEnvironments ==
    { Dropping(Serving(Environment(f, k, CeilingThreads), ValidBlob), d) :
        f \in 0 .. CeilingFaults, k \in 0 .. CeilingCancels, d \in 0 .. 1 }

InitExit ==
    /\ InitSession
    /\ blocks = CeilingBlocks
    /\ db = StoreWith({})
    /\ syncRecord = NoRecord
    /\ env \in {e \in ExitEnvironments : e.faults + e.cancels + e.drops <= 1}

\* The steps a thread takes once it can: everything but the caller's
\* decision to cancel or to drop the session, a spurious wake-up, the
\* program stopping on undefined behaviour, and the scheduler's going to
\* sleep (which has its own fairness condition).
Progress ==
    \/ Sync
    \/ SchedLoop
    \/ SchedLock
    \/ SchedWakeNotified
    \/ SchedCheck
    \/ Transport
    \/ CancelAbort
    \/ CancelLoadBlocks
    \/ CancelLoadProject
    \/ CancelCallback
    \/ DestroyAbort
    \/ DestroyJoin
    \/ DestroyDetach

\* Some thread that can take a step, or could again and again but for a
\* mutex that is taken and released, eventually takes one; every issued
\* fetch eventually finishes (Finish is one of these steps); a thread at a
\* null statement faults.
ExitFairness ==
    /\ SF_vars(Progress)
    /\ WF_vars(SchedWait)
    /\ WF_vars(NullDereference /\ Crash)

ExitSpec == InitExit /\ [][Next]_vars /\ ExitFairness

(***************************************************************************)
(* A session that ends before completion and is dropped, followed by a new *)
(* session for the same project, snapshot and local path: Sync() is called *)
(* again over the local store and the sync record the first one left.      *)
(***************************************************************************)
\* How many times the owner opens a new session after dropping one.
MaxResumes == 1

\* An environment whose owner may open a new session n more times.
Resuming(e, n) == e @@ [sessions |-> n]

ResumeBlockLists == { <<"A", "B">>, <<"a", "A">> }

InitResume ==
    /\ InitSession
    /\ blocks \in ResumeBlockLists
    /\ db = StoreWith({})
    /\ syncRecord = NoRecord
    /\ env = Resuming(Dropping(Serving(Environment(CeilingFaults, CeilingCancels,
                                                  CeilingThreads), ValidBlob), 1),
                      MaxResumes)

\* The dropped session is over (its destructor has returned and no
\* finished-callback is left) and it had not downloaded everything; the
\* new object starts from the member initialisers, the store is not yet
\* attached to it (unless the dropped session's DETACH failed and left it
\* on the connection), and nothing disturbs it (it lives in the same
\* process: the damage of an earlier race stays).
Reopen ==
    /\ phase = "destroyed"
    /\ chains = EmptyBag
    /\ env.sessions > 0
    /\ ~Completed(mDownloadedBlocks, mProjectDownloaded)
    /\ phase' = "new"
    /\ db' = IF db.attached = "yes" THEN db ELSE [db EXCEPT !.attached = "no"]
    /\ env' = [env EXCEPT !.sessions = @ - 1, !.faults = 0, !.cancels = 0]
    /\ mCancelled' = FALSE
    /\ mFailed' = FALSE
    /\ mDownloadedBlocks' = 0
    /\ mMissingBlocks' = 0
    /\ mProjectDownloaded' = FALSE
    /\ mRequests' = << >>
    /\ mNextRequestIndex' = 0
    /\ mRequestsInProgress' = 0
    /\ requestsMutex' = FALSE
    /\ dbWriteMutex' = FALSE
    /\ sched' = [pc |-> "none", notified |-> FALSE]
    /\ caller' = [pc |-> "idle", bd |-> 0, pd |-> FALSE]
    /\ UNCHANGED << blocks, syncRecord, chains, reports, mResponses >>

\* These sessions stay below the ceiling: the scheduler never waits.
NextResume ==
    \/ Sync
    \/ SchedLoop
    \/ SchedLock
    \/ SchedCheck
    \/ Transport
    \/ Cancel
    \/ Destroy
    \/ Crash
    \/ Reopen

ResumeSpec == InitResume /\ [][NextResume]_vars

(***************************************************************************)
(* Properties                                                              *)
(***************************************************************************)
\* A callback invocation happens in this step.
Reported == reports'.n > reports.n

\* C1: at most one callback invocation carries completed=true; stated for
\* the sessions the claim is about, in which only the success handlers
\* report (nothing failed, Cancel() was not called).
C1_AtMostOneCompleted ==
    (reports.errors = 0 /\ reports.cancelled = 0) => reports.completed <= 1

\* C2: once Cancel() has emitted its report, no report with completed=true
\* is emitted by ReportProgress, and the rows of committed block
\* transactions stay in the store.
C2_NoCompletionAfterCancel ==
    [][ /\ (reports.cancelled >= 1 /\ Reported /\ reports'.last.by = "progress")
            => ~reports'.last.completed
        /\ db.blockRows \subseteq db'.blockRows
        /\ db.hashRows \subseteq db'.hashRows ]_vars

\* C3: the number of network operations in flight (fetches issued, retries
\* included, and not finished) never exceeds 6.
C3_InFlightAtMostCeiling == NetworkOperationsInFlight <= MAX_CONCURRENT_REQUESTS

\* C3 witness: six fetches in flight, with the scheduler blocked at the
\* ceiling and a request still pending.
C3_Witness ==
    /\ NetworkOperationsInFlight = MAX_CONCURRENT_REQUESTS
    /\ sched.pc = "blocked"
    /\ mNextRequestIndex < Len(mRequests)

\* C4: downloadedBlocks never decreases and never exceeds missingBlocks,
\* as a counter and as the value carried by successive callback invocations.
C4_DownloadedMonotone ==
    [][ /\ mDownloadedBlocks' >= mDownloadedBlocks
        /\ mDownloadedBlocks' <= mMissingBlocks'
        /\ Reported => /\ reports'.last.downloadedBlocks <= reports'.last.missingBlocks
                       /\ reports.n > 0 =>
                            reports'.last.downloadedBlocks >= reports.last.downloadedBlocks
      ]_vars

\* C5: every report with completed=true carries downloadedBlocks ==
\* missingBlocks and projectBlobDownloaded, whichever operation emits it.
C5_CompletedOnlyWhenAllDownloaded ==
    reports.last.completed =>
        /\ reports.last.downloadedBlocks = reports.last.missingBlocks
        /\ reports.last.projectDownloaded

\* C6: at most one callback invocation has cancelled=true, and no callback
\* invocation follows it.
C6_CancelReportIsLast ==
    [][ reports.cancelled >= 1 => reports' = reports ]_vars

\* C7: at most one callback invocation carries a non-empty error.
C7_AtMostOneError == reports.errors <= 1

\* C8: the report of Cancel() has cancelled=true, completed=false, an empty
\* error, and the counts and the flag as they are in the session.
C8_CancelReport ==
    reports.last.by = "cancel" =>
        /\ reports.last.cancelled
        /\ ~reports.last.completed
        /\ reports.last.error = ""
        /\ reports.last.missingBlocks = mMissingBlocks
        /\ reports.last.downloadedBlocks <= mDownloadedBlocks
        /\ reports.last.projectDownloaded => mProjectDownloaded

\* C9: when Cancel() returns, every fetch issued and not finished has
\* received abort().
C9_CancelAbortsAll ==
    [][ (caller.pc = "c_cb" /\ caller'.pc = "idle")
            => \A c \in BagToSet(chains') : InFlight(c) => c.aborted ]_vars

\* C10: when the known blocks are all the required ones and the record
\* shows Synced for this snapshot id, creating the session reports once
\* {0, 0, no error, completed, success, not cancelled}, leaves the sync
\* record alone, starts no scheduler and issues no request.
C10_ShortCircuit ==
    [][ ( /\ phase = "new"
          /\ db'.attached = "yes"
          /\ CalculateKnownBlocks(blocks, db, TRUE) = {ToUpper(h) : h \in SeqToSet(blocks)}
          /\ syncRecord = [snapshotId |-> SnapshotId, status |-> "Synced"] )
        => /\ phase' = "shortcut"
           /\ syncRecord' = syncRecord
           /\ sched'.pc = "none"
           /\ chains' = EmptyBag
           /\ mRequests' = <<>>
           /\ reports'.n = 1
           /\ reports'.last = [by |-> "shortcut"] @@
                 SnapshotState(0, 0, "", TRUE, TRUE, TRUE, FALSE) ]_vars

\* The attach of the local storage has failed in this step and Sync is
\* over: ATTACH DATABASE ran and failed, or its statement could not be
\* created.
AttachFails ==
    /\ phase = "new"
    /\ phase' \in {"noattach", "crashed"}
    /\ db'.attached = "no"

\* C11: when attaching the local storage fails, Sync invokes the callback
\* exactly once, with zero counts, a non-empty error and every flag false,
\* returns no session, and leaves the store (no attach, no detach, no row),
\* the sync record, the pending list and the scheduler untouched.
C11_AttachFailure ==
    [][ AttachFails =>
          /\ reports'.n = 1
          /\ reports'.last.by = "attach"
          /\ reports'.last.downloadedBlocks = 0
          /\ reports'.last.missingBlocks = 0
          /\ reports'.last.error # ""
          /\ ~reports'.last.projectDownloaded
          /\ ~reports'.last.completed
          /\ ~reports'.last.success
          /\ ~reports'.last.cancelled
          /\ db' = db
          /\ syncRecord' = syncRecord
          /\ mRequests' = <<>>
          /\ mMissingBlocks' = 0
          /\ chains' = EmptyBag
          /\ sched'.pc = "none" ]_vars

\* C12: whenever the callback receives a report with completed=true, the
\* sync record already has status Synced for this session's snapshot id.
C12_SyncedBeforeCompleted ==
    [][ (Reported /\ reports'.last.completed) =>
           syncRecord' = [snapshotId |-> SnapshotId, status |-> "Synced"] ]_vars

\* The number of the fetch a chain is at: 1 for the first attempt.
Attempt(c) == InitialRetries - c.retries + 1

\* A chain whose fetch is being issued or is in flight.
Fetching(c) == c.pc \in {"issue", "untracked", "flight"}

\* C13 as stated: the fetch of a request is issued at most 3 times, and
\* every request starts with the whole budget.
C13_ThreeAttempts ==
    \A c \in Chains :
        /\ Fetching(c) => Attempt(c) <= InitialRetries
        /\ c.sched => c.retries = InitialRetries

\* C13 amended: the budget is 3 retries, so the fetch of a request is issued
\* at most 4 times (the first attempt and 3 retries) before the failure path
\* is taken, and every request starts with the whole budget whatever the
\* other requests have used.
C13_ThreeRetries ==
    \A c \in Chains :
        /\ Fetching(c) => Attempt(c) \in 1 .. (InitialRetries + 1)
        /\ c.sched => c.retries = InitialRetries

\* C13 witness: a request on its fourth fetch while another one is on its
\* first.
C13_Witness ==
    \E c, d \in Chains :
        /\ c.pc = "flight" /\ Attempt(c) = InitialRetries + 1
        /\ d.pc = "flight" /\ Attempt(d) = 1

\* The payload is too short for the length prefix, or declares a
\* dictionary longer than what follows the prefix.
Malformed(blob) == blob.size < SizeOfU64 \/ DictionaryTooLong(blob)

\* C14: a project blob that is shorter than 8 bytes, or whose declared
\* 64-bit dictionary length exceeds what follows the prefix, is rejected:
\* only the failure path reports, no project record is written,
\* projectBlobDownloaded stays false and the request is not retried.
C14_MalformedBlobRejected ==
    Malformed(env.blob) =>
        /\ ~db.project
        /\ ~mProjectDownloaded
        /\ reports.n > 0 => reports.last.by \in {"attach", "failure"}
        /\ \A c \in Chains :
             /\ c.pc \notin {"store", "rp_cancel", "rp_pd", "rp_bd", "rp_mark", "rp_cb"}
             /\ Fetching(c) => Attempt(c) = 1

\* The chains that are on the failure path (inside OnFailure).
OnFailurePath ==
    {c \in Chains : c.pc \in {"fail_store", "fail_remove", "fail_count",
                              "fail_bd", "fail_pd", "fail_cb"}}

FailingChains == [c \in OnFailurePath |-> chains[c]]

\* How many chains of a bag are blocks on the failure path that their
\* handler took.
FailingCount(B) ==
    SumOver(B, {c \in BagToSet(B) :
                  /\ c.kind = "block"
                  /\ c.nested
                  /\ c.pc \in {"fail_store", "fail_remove", "fail_count",
                               "fail_bd", "fail_pd", "fail_cb"}})

\* The handler of block chain c ends in this step without having
\* committed, the chain becoming d: the block did not decompress, or a
\* statement or the commit of its transaction failed.
BlockFails(c, d) ==
    /\ c.pc = "handler"
    /\ c.kind = "block"
    /\ d.pc \notin {"handler", "store"}
    /\ chains' = Replace(c, d)

\* Every block has its hash-index row and its payload row, or neither.
RowsTogether(store) ==
    \A h \in UpperHashes :
        (\E r \in store.hashRows : r.blockId = BlockIdOf(h))
            <=> BlockIdOf(h) \in store.blockRows

\* C15: a block that fails in its handler, at decompression or at any
\* statement or the commit of its transaction, takes the failure path with
\* a non-empty error, without changing the local store or downloadedBlocks;
\* such a block leaves the failure path only by its failure report, which
\* has a non-empty error and is made with the failed flag set; and no block
\* ever has one of its two rows without the other.
C15_NoPartialApplication ==
    [][ /\ \A c \in Chains, d \in BagToSet(chains') :
              BlockFails(c, d) => d.pc = "fail_store" /\ d.err # ""
        /\ FailingChains' # FailingChains =>
              /\ db' = db
              /\ mDownloadedBlocks' = mDownloadedBlocks
        /\ FailingCount(chains') < FailingCount(chains) =>
              Reported /\ reports'.last.by = "failure"
        /\ (Reported /\ reports'.last.by = "failure") =>
              /\ reports'.last.error # ""
              /\ mFailed
        /\ RowsTogether(db') ]_vars

\* The entries of a block list whose (upper-cased) hash is in the set.
RECURSIVE EntriesIn(_, _)
EntriesIn(bs, known) ==
    IF bs = << >> THEN 0
    ELSE (IF ToUpper(Head(bs)) \in known THEN 1 ELSE 0) + EntriesIn(Tail(bs), known)

\* The blocks of a list that are not in the set, in order, as requests.
RECURSIVE Unknown(_, _)
Unknown(bs, known) ==
    IF bs = << >> THEN << >>
    ELSE (IF ToUpper(Head(bs)) \in known THEN << >>
          ELSE << [kind |-> "block", hash |-> ToUpper(Head(bs))] >>)
         \o Unknown(Tail(bs), known)

\* C16: for a snapshot with N blocks of which K are known locally, the
\* session that starts downloading has missingBlocks = N - K and a pending
\* list of exactly 1 + (N - K) entries, the project blob first and then the
\* blocks that are not known, in snapshot order; the scheduler's cursor
\* never passes the end of the list.
C16_PendingList ==
    [][ phase' = "active" /\ phase = "new" =>
          LET known == CalculateKnownBlocks(blocks, db, TRUE)
              n == Len(blocks)
              k == EntriesIn(blocks, known)
          IN  /\ mMissingBlocks' = n - k
              /\ Len(mRequests') = 1 + (n - k)
              /\ mRequests' = << [kind |-> "blob", hash |-> ""] >> \o Unknown(blocks, known)
              /\ mNextRequestIndex' = 0 ]_vars

\* A report with completed=true and success=true has been emitted: the
\* reports with completed=true and success=false are those of Cancel (with
\* cancelled=true) and of OnFailure (with an error).
CompletedReport ==
    reports.completed > reports.errors + reports.cancelled

\* C17: a session that was created (the attach succeeded) and that nothing
\* disturbs eventually emits a report with completed=true and success=true,
\* and its sync record ends with status Synced.
C17_EventuallyCompleted ==
    \/ <>(phase = "noattach")
    \/ /\ <>CompletedReport
       /\ <>[](syncRecord.status = "Synced")

\* The rows the session has committed to the local store.
Committed(store) == << store.project, store.hashRows, store.blockRows >>

\* C18: destruction emits no report of its own, and once the destruction of
\* the session has begun no callback is invoked and nothing is committed to
\* the local store, not even by fetches that were in flight.
C18_QuietAfterDestruction ==
    [][ (phase \in {"destroying", "destroyed"} \/ phase' \in {"destroying", "destroyed"}) =>
            /\ ~Reported
            /\ Committed(db') = Committed(db) ]_vars

\* C19: once mFailed is set, no report with completed=true and success=true
\* is emitted, while the requests dispatched before the failure drain,
\* commit and report progress.
C19_NoSuccessAfterFailure ==
    [][ (mFailed /\ Reported) =>
            ~(reports'.last.completed /\ reports'.last.success) ]_vars

\* A request that drained after the failure was reported has committed and
\* reported progress.
C19_Witness ==
    /\ mFailed
    /\ reports.errors >= 1
    /\ reports.last.by = "progress"
    /\ reports.last.downloadedBlocks + (IF reports.last.projectDownloaded THEN 1 ELSE 0) >= 1

\* The local store after the transactions of the requests, each committed
\* once, in list order.
RECURSIVE CommitAll(_, _)
CommitAll(store, reqs) ==
    IF reqs = << >> THEN store
    ELSE CommitAll(IF Head(reqs).kind = "blob" THEN CommitProject(store)
                   ELSE CommitBlock(store, Head(reqs).hash),
                   Tail(reqs))

\* The session has ended and nothing failed: every request was dispatched,
\* every finished-callback has returned.
SuccessfulEnd ==
    /\ phase = "active"
    /\ sched.pc = "done"
    /\ chains = EmptyBag
    /\ ~mFailed
    /\ ~mCancelled

\* C20: whatever number of transient errors (up to 3 for a request) the
\* fetches met before they succeeded, a session that ends without failure
\* has the local store, the counters and the sync record of the session in
\* which every first attempt succeeds: each request committed exactly once.
C20_RetriesLeaveNoTrace ==
    SuccessfulEnd =>
        /\ \E store \in RetryStores : db = CommitAll(Attach(store), mRequests)
        /\ mProjectDownloaded
        /\ mDownloadedBlocks = Len(mRequests) - 1
        /\ mRequestsInProgress = 0
        /\ mNextRequestIndex = Len(mRequests)
        /\ syncRecord = MarkProjectInDB(TRUE)

\* The only request of the session met three errors and then succeeded.
C20_Witness ==
    /\ SuccessfulEnd
    /\ Len(mRequests) = 1
    /\ env.faults = 0

\* C21: the in-flight counter is the number of dispatched requests whose
\* chain has not resolved: it is never negative, never above the number of
\* chains that are still running, and zero when no chain is left (in a
\* process that has not stopped).
C21_InFlightCounter ==
    phase # "crashed" =>
        /\ mRequestsInProgress >= 0
        /\ mRequestsInProgress <= BagCardinality(chains)
        /\ chains = EmptyBag => mRequestsInProgress = 0

\* C22: the scheduler thread always eventually leaves its loop (it returns
\* from RequestsThread, or was never started), whether the cursor reaches
\* the end of the list, a request fails, Cancel() is called or the session
\* is dropped, also when the wake-up of the cancellation is signalled while
\* the scheduler is about to wait at the ceiling; and the destructor's join
\* returns.
C22_SchedulerExits ==
    /\ <>[](sched.pc \in {"none", "done"})
    /\ (caller.pc = "d_join") ~> (caller.pc = "d_detach")

\* The block requests of the session have pairwise distinct hashes.
DistinctRequests ==
    \A i, j \in 1 .. Len(mRequests) :
        mRequests[i].hash = mRequests[j].hash => i = j

\* The block requests whose transaction has committed: both rows are in the
\* store (a block is requested only when the store did not hold it).
CommittedBlocks ==
    { i \in 1 .. Len(mRequests) :
        /\ mRequests[i].kind = "block"
        /\ BlockIdOf(mRequests[i].hash) \in db.blockRows
        /\ [blockId |-> BlockIdOf(mRequests[i].hash), hash |-> mRequests[i].hash]
              \in db.hashRows }

\* C23: downloadedBlocks is at most the number of block transactions the
\* session has committed, and projectBlobDownloaded is true only if the
\* project-blob transaction has committed.
C23_CountersFollowCommits ==
    DistinctRequests =>
        /\ mDownloadedBlocks <= Cardinality(CommittedBlocks)
        /\ mProjectDownloaded => db.project

\* Both a block and the project blob have been committed and counted.
C23_Witness ==
    /\ DistinctRequests
    /\ mDownloadedBlocks >= 1
    /\ mProjectDownloaded

\* The threads that hold mDbWriteMutex: the finished-callbacks inside a
\* transaction scope, and the caller inside the attach or detach scope.
Writers ==
    SumOver(chains, {c \in Chains : c.inLock})
        + (IF caller.pc \in {"s_deref", "d_deref"} THEN 1 ELSE 0)

\* A write to the local store or the sync record, or the taking of
\* mDbWriteMutex, happens in this step.
WriteStep ==
    \/ Committed(db') # Committed(db)
    \/ syncRecord' # syncRecord
    \/ dbWriteMutex' /\ ~dbWriteMutex

\* C24: at most one thread at a time is inside a local-store write, and a
\* thread that takes mDbWriteMutex holds neither mRequestsMutex nor
\* mResponsesMutex: the step leaves mRequestsMutex as it was, and it is
\* not a step of the scheduler inside its critical section nor of the
\* caller inside the abort loop.
C24_OneWriter ==
    /\ [](phase # "crashed" => Writers <= 1 /\ (dbWriteMutex <=> Writers = 1))
    /\ [][ WriteStep =>
             /\ ~dbWriteMutex
             /\ requestsMutex' = requestsMutex
             /\ requestsMutex => sched' = sched
             /\ caller.pc \in {"c_abort", "d_abort"} => caller' = caller ]_vars

\* A finished-callback is inside its transaction while another one has
\* reached its own and waits for mDbWriteMutex.
C24_Witness ==
    /\ Writers = 1
    /\ \E c \in Chains : c.pc \in {"handler", "rp_mark"} /\ ~c.inLock

\* The session went past the short-circuit test of its constructor.
Started == phase \in {"active", "destroying", "destroyed", "crashed"} /\ sched.pc # "none"

\* Cancel() has reported, and the counts it loaded after setting the flag
\* were not complete: the session was cancelled before completion.
CancelledEarly ==
    /\ reports.last.by = "cancel"
    /\ ~Completed(reports.last.downloadedBlocks, reports.last.projectDownloaded)

\* C25: a session that did not short-circuit has its record at Downloading,
\* with this snapshot's id, from before the first dispatch; the record is
\* Synced only if downloadedBlocks = missingBlocks and the project blob is
\* downloaded; and once the session has failed or been cancelled before
\* that, the record stays at Downloading.
C25_RecordFollowsProgress ==
    /\ [](Started =>
            /\ syncRecord.snapshotId = SnapshotId
            /\ syncRecord.status \in {"Downloading", "Synced"}
            /\ mNextRequestIndex = 0 /\ ~mProjectDownloaded /\ mDownloadedBlocks = 0
                  => syncRecord.status = "Downloading"
            /\ syncRecord.status = "Synced"
                  => Completed(mDownloadedBlocks, mProjectDownloaded))
    /\ [][ (phase = "active" /\ (mFailed \/ CancelledEarly)
               /\ syncRecord.status = "Downloading")
            => syncRecord'.status = "Downloading" ]_vars

\* C26: whatever the block list (repeated hashes, hashes that differ in
\* letter case only), missingBlocks is the number of block requests in the
\* pending list.
C26_MissingIsRequested ==
    phase = "active" => mMissingBlocks = Len(mRequests) - 1

\* Fetches issued whose response is not yet pushed to mResponses, in a bag
\* of chains.
Untracked(B) == SumOver(B, {c \in BagToSet(B) : c.pc = "untracked"})

\* Chains that are about to issue a retry, in a bag of chains.
Retrying(B) ==
    SumOver(B, {c \in BagToSet(B) : c.pc = "issue" /\ c.retries < InitialRetries})

\* C27: once mCancelled is set, no fetch is issued: the scheduler dequeues
\* no request, no doGet is called, and no finished attempt is retried.
C27_NoFetchAfterCancel ==
    [][ mCancelled =>
          /\ mNextRequestIndex' = mNextRequestIndex
          /\ Untracked(chains') <= Untracked(chains)
          /\ Retrying(chains') <= Retrying(chains) ]_vars

\* The hashes of the blocks whose transaction has committed: both rows are
\* in the store.
CommittedHashes(store) ==
    { r.hash : r \in { row \in store.hashRows : row.blockId \in store.blockRows } }

\* C28: the session created after one that ended before completion does
\* not short-circuit, has the project blob as its first request, has no
\* request for a block the earlier session committed, and has missingBlocks
\* equal to the number of blocks minus the committed ones.
C28_ResumeSkipsCommitted ==
    [][ (phase = "new" /\ env.sessions < MaxResumes /\ phase' \in {"active", "shortcut"}) =>
          /\ phase' = "active"
          /\ mRequests'[1] = BlobRequest
          /\ \A i \in 2 .. Len(mRequests') :
                mRequests'[i].hash \notin CommittedHashes(db)
          /\ mMissingBlocks' = Len(blocks) - EntriesIn(blocks, CommittedHashes(db))
          /\ mMissingBlocks' = Len(mRequests') - 1 ]_vars

\* C29: no two threads are at an access to mResponses at the same time: no
\* thread is at its push_back while another one is at a push_back, at the
\* erase of RemoveRequest or in the abort loop of DoCancel.
C29_ResponsesLocked ==
    \A c \in Chains : c.pc = "untracked" => ~RacingAccess(c)

====
